---- MODULE Spec2Model ----
(***************************************************************************)
(* A model of gitignore_parser.py: the tokenizer (GITIGNORE_PATTERN), the  *)
(* pattern compiler (rule_from_pattern, _build_regex), the rule-set        *)
(* combiner (GitignoreMatcher.__init__) and the matcher (_call).           *)
(*                                                                         *)
(* Text is a sequence of one-character strings, so that the regular        *)
(* expressions the program builds are built here character by character,   *)
(* and matched by a model of the `re` engine that parses that text.        *)
(***************************************************************************)
EXTENDS Integers, Sequences, FiniteSets, TLC

\* ------------------------------------------------------------------ text

Last(s) == s[Len(s)]

\* s[i..] (1-based, empty when i > Len(s))
From(s, i) == SubSeq(s, i, Len(s))

RECURSIVE Concat(_)
\* ''.join(parts)
Concat(parts) ==
    IF parts = <<>> THEN <<>> ELSE Head(parts) \o Concat(Tail(parts))

StartsWith(s, pre) ==
    /\ Len(s) >= Len(pre)
    /\ SubSeq(s, 1, Len(pre)) = pre

\* the characters \s matches
WhitespaceChars == {" ", "\t", "\n", "\r", "\f"}

\* [^ \/\*\?\[\]\n\\]
NameChar(c) == c \notin {" ", "/", "*", "?", "[", "]", "\n", "\\"}

\* ----------------------------------------------------- GITIGNORE_PATTERN

RECURSIVE RunEnd(_, _, _)
\* the last index of the maximal run of characters of `set` starting at i
\* (i - 1 when p[i] is not in the set)
RunEnd(p, i, set) ==
    IF i <= Len(p) /\ p[i] \in set THEN RunEnd(p, i + 1, set) ELSE i - 1

RECURSIVE NameEnd(_, _)
NameEnd(p, i) ==
    IF i <= Len(p) /\ NameChar(p[i]) THEN NameEnd(p, i + 1) ELSE i - 1

RECURSIVE LineEnd(_, _)
\* .+ : up to, not including, the next newline
LineEnd(p, i) ==
    IF i <= Len(p) /\ p[i] # "\n" THEN LineEnd(p, i + 1) ELSE i - 1

RECURSIVE BracketItems(_, _)
\* (?:\\.|[^\\])+ from position j: the positions right after 1, 2, ... items
BracketItems(p, j) ==
    IF j > Len(p) THEN {}
    ELSE IF p[j] = "\\"
         THEN IF j + 1 <= Len(p) /\ p[j + 1] # "\n"
              THEN {j + 2} \cup BracketItems(p, j + 2)
              ELSE {}
         ELSE {j + 1} \cup BracketItems(p, j + 1)

\* \[(?:\\.|[^\\])+\] at i: the index of the closing bracket the greedy,
\* backtracking match ends on, 0 when there is no match
BracketEnd(p, i) ==
    LET closes == {b \in BracketItems(p, i + 1) : b <= Len(p) /\ p[b] = "]"}
    IN  IF closes = {} THEN 0
        ELSE CHOOSE b \in closes : \A c \in closes : c <= b

CharAt(p, i) == IF i >= 1 /\ i <= Len(p) THEN p[i] ELSE ""

\* the token GITIGNORE_PATTERN matches at position i: the first alternative,
\* in the order of the pattern, that matches there
TokenAt(p, i) ==
    LET c == p[i]
        prevStar == CharAt(p, i - 1) = "*"
        tok(kind, last) == [kind |-> kind, text |-> SubSeq(p, i, last),
                            start |-> i, last |-> last]
    IN  IF c = "/" THEN tok("separator", i)
        ELSE IF /\ c = "*" /\ CharAt(p, i + 1) = "*"
                /\ ~prevStar /\ CharAt(p, i + 2) # "*"
             THEN tok("star_star", i + 1)
        ELSE IF c = "*" /\ ~prevStar /\ CharAt(p, i + 1) # "*"
             THEN tok("star", i)
        ELSE IF c = "?" THEN tok("question_mark", i)
        ELSE IF c = "[" /\ BracketEnd(p, i) # 0
             THEN tok("bracket_expression", BracketEnd(p, i))
        ELSE IF c = "\\" /\ i < Len(p) /\ p[i + 1] # "\n"
             THEN tok("escaped_char", i + 1)
        ELSE IF NameChar(c) THEN tok("name_piece", NameEnd(p, i))
        ELSE IF c \in WhitespaceChars
             THEN tok("spaces", RunEnd(p, i, WhitespaceChars))
        ELSE IF c = "*" /\ RunEnd(p, i, {"*"}) >= i + 2
             THEN tok("error_stars", RunEnd(p, i, {"*"}))
        ELSE tok("error", LineEnd(p, i))

RECURSIVE finditer(_, _)

\* token t and the tokens after it
TokensFrom(p, t) ==
    IF t.kind \in {"error", "error_stars"} THEN <<t>>
    ELSE <<t>> \o finditer(p, t.last + 1)

\* GITIGNORE_PATTERN.finditer(pattern, pos): the tokens from index i on
\* (1-based).  Nothing after an error token is read by the caller, which
\* returns on it.
finditer(p, i) == IF i > Len(p) THEN <<>> ELSE TokensFrom(p, TokenAt(p, i))

\* ------------------------------------------------------------ regex text

QUESTION_MARK_REGEX == <<"[", "^", "/", "]">>

STAR_REGEX == <<"[", "^", "/", "]", "*">>

STAR_STAR_REGEX == <<".", "*">>

\* '(?:[^/]*/)' : one whole path segment
SEGMENTS_REGEX_ONE == <<"(", "?", ":", "[", "^", "/", "]", "*", "/", ")">>

\* '(?:.*/)' : one or more whole path segments
SEGMENTS_REGEX == <<"(", "?", ":", ".", "*", "/", ")">>

\* '(?:/.*)?' : optionally, a separator and anything
CONTENTS_REGEX == <<"(", "?", ":", "/", ".", "*", ")", "?">>

\* '/.*' : a separator and anything
DIR_CONTENTS_REGEX == <<"/", ".", "*">>

\* the characters re.escape puts a backslash before
SpecialChars ==
    {"(", ")", "[", "]", "{", "}", "?", "*", "+", "-", "|", "^", "$", "\\",
     ".", "&", "~", "#", " ", "\t", "\n", "\r", "\f"}

RECURSIVE re_escape(_)
re_escape(s) ==
    IF s = <<>> THEN <<>>
    ELSE (IF Head(s) \in SpecialChars THEN <<"\\", Head(s)>> ELSE <<Head(s)>>)
         \o re_escape(Tail(s))

RECURSIVE sub(_, _)
\* ESCAPED_CHAR_PATTERN.sub(sub, bracket_expression) from index i: a
\* backslash is kept only before a backslash, a dash or a caret
sub(b, i) ==
    IF i > Len(b) THEN <<>>
    ELSE IF b[i] = "\\" /\ i < Len(b) /\ b[i + 1] # "\n"
         THEN (IF b[i + 1] \in {"\\", "-", "^"}
               THEN <<b[i], b[i + 1]>> ELSE <<b[i + 1]>>)
              \o sub(b, i + 2)
         ELSE <<b[i]>> \o sub(b, i + 1)

\* the bracket_expression branch of rule_from_pattern
bracket_regex(bracket_expression) ==
    LET unescaped == sub(bracket_expression, 1)
    IN  IF StartsWith(unescaped, <<"[", "!">>)
        THEN <<"[", "^">> \o From(unescaped, 3)
        ELSE unescaped

\* ------------------------------------------------------ rule_from_pattern

\* the locals of rule_from_pattern before its token loop
LoopStart ==
    [parts |-> << <<>> >>, pending_spaces |-> <<>>,
     first_separator_index |-> 0, index |-> 0, returned |-> FALSE]

\* the token loop's iteration with a run of three or more asterisks handled
\* as one asterisk
LoopBodyStars(st, match, index, negation) ==
    LET flushed == IF st.pending_spaces # <<>>
                   THEN Append(st.parts, st.pending_spaces)
                   ELSE st.parts
        s0 == [st EXCEPT !.parts = flushed, !.pending_spaces = <<>>,
                         !.index = index]
        add(part) == [s0 EXCEPT !.parts = Append(flushed, part)]
    IN  CASE match.kind = "separator" ->
               LET s1 == [s0 EXCEPT !.first_separator_index =
                             IF @ # 0 THEN @ ELSE index]
               IN  IF Last(flushed) = STAR_STAR_REGEX
                   THEN [s1 EXCEPT !.parts =
                           [flushed EXCEPT ![Len(flushed)] =
                              SEGMENTS_REGEX
                              \o (IF negation THEN <<>> ELSE <<"?">>)]]
                   ELSE [s1 EXCEPT !.parts = Append(flushed, <<"/">>)]
          [] match.kind = "star_star" -> add(STAR_STAR_REGEX)
          [] match.kind \in {"star", "error_stars"} -> add(STAR_REGEX)
          [] match.kind = "question_mark" -> add(QUESTION_MARK_REGEX)
          [] match.kind = "bracket_expression" ->
               add(bracket_regex(match.text))
          [] match.kind = "escaped_char" -> add(re_escape(<<match.text[2]>>))
          [] match.kind = "name_piece" -> add(re_escape(match.text))
          [] match.kind = "spaces" ->
               [s0 EXCEPT !.pending_spaces = match.text, !.index = index - 1]
          [] OTHER -> [s0 EXCEPT !.returned = TRUE]

\* one iteration of the token loop: token `match`, the index-th of the line
LoopBody(st, match, index, negation) ==
    LET flushed == IF st.pending_spaces # <<>>
                   THEN Append(st.parts, st.pending_spaces)
                   ELSE st.parts
        s0 == [st EXCEPT !.parts = flushed, !.pending_spaces = <<>>,
                         !.index = index]
        add(part) == [s0 EXCEPT !.parts = Append(flushed, part)]
    IN  CASE match.kind = "separator" ->
               LET s1 == [s0 EXCEPT !.first_separator_index =
                             IF @ # 0 THEN @ ELSE index]
               IN  IF Last(flushed) = STAR_STAR_REGEX
                   THEN [s1 EXCEPT !.parts =
                           [flushed EXCEPT ![Len(flushed)] =
                              SEGMENTS_REGEX
                              \o (IF negation THEN <<>> ELSE <<"?">>)]]
                   ELSE [s1 EXCEPT !.parts = Append(flushed, <<"/">>)]
          [] match.kind = "star_star" -> add(STAR_STAR_REGEX)
          [] match.kind = "star" -> add(STAR_REGEX)
          [] match.kind = "question_mark" -> add(QUESTION_MARK_REGEX)
          [] match.kind = "bracket_expression" ->
               add(bracket_regex(match.text))
          [] match.kind = "escaped_char" -> add(re_escape(<<match.text[2]>>))
          [] match.kind = "name_piece" -> add(re_escape(match.text))
          [] match.kind = "spaces" ->
               [s0 EXCEPT !.pending_spaces = match.text, !.index = index - 1]
          [] OTHER -> [s0 EXCEPT !.returned = TRUE]

RECURSIVE LoopKeepingSpaces(_, _, _, _)
\* the token loop with the pending spaces kept when the tokens run out
LoopKeepingSpaces(st, tokens, index, negation) ==
    IF st.returned THEN st
    ELSE IF index > Len(tokens)
    THEN IF st.pending_spaces # <<>>
         THEN [st EXCEPT !.parts = Append(@, st.pending_spaces)]
         ELSE st
    ELSE LoopKeepingSpaces(LoopBody(st, tokens[index], index, negation),
                           tokens, index + 1, negation)

RECURSIVE Loop(_, _, _, _)
\* the token loop from the index-th token on
Loop(st, tokens, index, negation) ==
    IF index > Len(tokens) \/ st.returned THEN st
    ELSE Loop(LoopBody(st, tokens[index], index, negation),
              tokens, index + 1, negation)

\* lines 381-387, the leading separator of parts[0] dropped
JoinRegex(base, anchor, parts, dir_only_ending) ==
    IF dir_only_ending # <<>>
    THEN <<re_escape(base) \o anchor \o Concat(parts),
           re_escape(base) \o anchor
               \o Concat(SubSeq(parts, 1, Len(parts) - 1)) \o dir_only_ending>>
    ELSE <<re_escape(base) \o anchor \o Concat(parts),
           re_escape(base) \o anchor \o Concat(parts)>>

\* _build_regex: <<regex, dir_only_regex>>; dir_only_ending is <<>> for None
build_regex(base_path, parts, dir_only_ending, anchored) ==
    JoinRegex(IF base_path # <<>> /\ Last(base_path) = "/"
              THEN SubSeq(base_path, 1, Len(base_path) - 1)
              ELSE base_path,
              IF anchored THEN <<"/">>
              ELSE <<"/", "(", "?", ":", ".", "*", "/", ")", "?">>,
              IF StartsWith(parts[1], <<"/">>)
              THEN [parts EXCEPT ![1] = Tail(parts[1])]
              ELSE parts,
              dir_only_ending)

\* line 250: pattern.startswith('!')
Negation(pattern) == pattern # <<>> /\ pattern[1] = "!"

\* the locals of rule_from_pattern after its token loop
Walk(pattern) ==
    Loop(LoopStart,
         finditer(pattern, IF Negation(pattern) THEN 2 ELSE 1),
         1, Negation(pattern))

\* anchored by a separator wherever it is
AnchoredBySeparator(st) == st.first_separator_index # 0

\* line 339: first_separator_index and first_separator_index != index
Anchored(st) ==
    st.first_separator_index # 0 /\ st.first_separator_index # st.index

\* the parts with the optional ending whatever the rule is
WithContentsOptional(parts, directory_only) == Append(parts, CONTENTS_REGEX)

\* lines 343-351: the parts with the ending that also matches what a
\* directory holds
WithContents(parts, directory_only) ==
    IF Last(parts) # STAR_REGEX /\ directory_only
    THEN [parts EXCEPT ![Len(parts)] = DIR_CONTENTS_REGEX]
    ELSE Append(parts, CONTENTS_REGEX)

\* lines 334-362, for the parts of a line that has some.  The record also
\* keeps the local `anchored`, which the IgnoreRule does not store.
IgnoreRule(pattern, anchored, directory_only, built) ==
    [pattern |-> pattern,
     regex |-> built[1],
     dir_only_regex |-> built[2],
     negation |-> Negation(pattern),
     directory_only |-> directory_only,
     anchored |-> anchored]

RuleOfParts(pattern, base_path, parts, anchored, directory_only) ==
    IgnoreRule(pattern, anchored, directory_only,
               build_regex(base_path, WithContents(parts, directory_only),
                           IF Last(parts) # STAR_REGEX /\ directory_only
                           THEN CONTENTS_REGEX ELSE <<>>,
                           anchored))

\* lines 333-337: what the token loop left in st makes a rule, or None
RuleOfWalk(pattern, base_path, st) ==
    IF st.returned \/ Tail(st.parts) = <<>> \/ Tail(st.parts) = << <<"/">> >>
    THEN <<>>
    ELSE << RuleOfParts(pattern, base_path, Tail(st.parts), Anchored(st),
                        Last(st.parts) = <<"/">>) >>

\* rule_from_pattern: <<>> for None, else <<the IgnoreRule>>
rule_from_pattern(pattern, base_path) ==
    IF pattern = <<>> \/ pattern[1] = "#" THEN <<>>
    ELSE RuleOfWalk(pattern, base_path, Walk(pattern))

\* ------------------------------------------------------------ re.compile

\* the code point of a character (those the model's alphabets use)
Ord(c) ==
    CASE c = "\t" -> 9   [] c = "\n" -> 10  [] c = "\f" -> 12
      [] c = "\r" -> 13  [] c = " " -> 32   [] c = "!" -> 33
      [] c = "#" -> 35   [] c = "$" -> 36   [] c = "(" -> 40
      [] c = ")" -> 41   [] c = "*" -> 42   [] c = "-" -> 45
      [] c = "." -> 46   [] c = "/" -> 47   [] c = ":" -> 58
      [] c = "?" -> 63   [] c = "X" -> 88   [] c = "Y" -> 89
      [] c = "Z" -> 90   [] c = "[" -> 91   [] c = "\\" -> 92
      [] c = "]" -> 93   [] c = "^" -> 94   [] c = "a" -> 97
      [] c = "b" -> 98   [] c = "c" -> 99   [] c = "d" -> 100
      [] c = "|" -> 124

AlphaNumeric(c) == c \in {"X", "Y", "Z", "a", "b", "c", "d"}

Failed == [ok |-> FALSE, v |-> <<>>, next |-> 0]

Parsed(v, next) == [ok |-> TRUE, v |-> v, next |-> next]

\* value v, parsed up to `next`, before what `rest` parsed after it
Cons(v, rest) ==
    IF ~rest.ok THEN Failed ELSE Parsed(<<v>> \o rest.v, rest.next)

\* one member of a character set at i: a character or an escaped character
SetMember(r, i) ==
    IF i > Len(r) THEN Failed
    ELSE IF r[i] = "\\"
         THEN IF i + 1 > Len(r) \/ AlphaNumeric(r[i + 1]) THEN Failed
              ELSE Parsed(r[i + 1], i + 2)
         ELSE Parsed(r[i], i + 1)

RECURSIVE SetItems(_, _, _)

\* the range m1-m2 of a character set, and the members after it
SetRange(r, m1, m2) ==
    IF ~m2.ok THEN Failed
    ELSE IF Ord(m2.v) < Ord(m1.v) THEN Failed
    ELSE Cons(<<m1.v, m2.v>>, SetItems(r, m2.next, FALSE))

\* member m1 of a character set, the range it may start, and the members
\* after it; a "-" before the closing bracket is a literal
SetFrom(r, m1) ==
    IF ~m1.ok THEN Failed
    ELSE IF CharAt(r, m1.next) = "-"
    THEN IF m1.next + 1 > Len(r) THEN Failed
         ELSE IF r[m1.next + 1] = "]"
         THEN Parsed(<< <<m1.v, m1.v>>, <<"-", "-">> >>, m1.next + 2)
         ELSE SetRange(r, m1, SetMember(r, m1.next + 1))
    ELSE Cons(<<m1.v, m1.v>>, SetItems(r, m1.next, FALSE))

\* the members of a character set from i on, up to its closing bracket:
\* v is a sequence of <<lo, hi>> ranges (a single character is <<c, c>>);
\* `first` says that no member has been read yet, where "]" is a literal
SetItems(r, i, first) ==
    IF i > Len(r) THEN Failed
    ELSE IF r[i] = "]" /\ ~first THEN Parsed(<<>>, i + 1)
    ELSE SetFrom(r, SetMember(r, i))

SetNode(negate, items) ==
    IF ~items.ok THEN Failed
    ELSE Parsed([t |-> "set", negate |-> negate, items |-> items.v],
                items.next)

\* a character set, r[i] = "["
ParseSet(r, i) ==
    IF CharAt(r, i + 1) = "^"
    THEN SetNode(TRUE, SetItems(r, i + 2, TRUE))
    ELSE SetNode(FALSE, SetItems(r, i + 1, TRUE))

RepeatChars == {"*", "?"}

\* the atom repeated by the operator at atom.next, whose text ends before
\* `next`; a second repeat operator is an error
RepeatNode(r, atom, next) ==
    IF CharAt(r, next) \in RepeatChars THEN Failed
    ELSE Parsed([t |-> IF r[atom.next] = "*" THEN "star" ELSE "opt",
                 of |-> atom.v], next)

\* the repeat operator after an atom, if there is one: "*" or "?", possibly
\* followed by the "?" that makes it lazy
Repeated(r, atom) ==
    IF ~atom.ok THEN Failed
    ELSE IF CharAt(r, atom.next) \notin RepeatChars THEN atom
    ELSE IF atom.v.t \in {"bol", "eol"} THEN Failed
    ELSE RepeatNode(r, atom, IF CharAt(r, atom.next + 1) = "?"
                             THEN atom.next + 2 ELSE atom.next + 1)

RECURSIVE ParseAlts(_, _)
RECURSIVE ParseBranch(_, _)

\* branch b, and the branches after a "|"
AltsFrom(r, b) ==
    IF ~b.ok THEN Failed
    ELSE IF CharAt(r, b.next) = "|" THEN Cons(b.v, ParseAlts(r, b.next + 1))
    ELSE Parsed(<<b.v>>, b.next)

\* branches separated by "|", up to the end or a closing parenthesis
ParseAlts(r, i) == AltsFrom(r, ParseBranch(r, i))

\* the group (?:...) or the negative lookahead (?!...) opened at i
GroupNode(r, i, inner) ==
    IF ~inner.ok THEN Failed
    ELSE IF CharAt(r, inner.next) # ")" THEN Failed
    ELSE Parsed([t |-> IF r[i + 2] = ":" THEN "group" ELSE "assert_not",
                 alts |-> inner.v], inner.next + 1)

ParseAtom(r, i) ==
    CASE r[i] = "(" ->
           IF CharAt(r, i + 1) = "?" /\ CharAt(r, i + 2) \in {":", "!"}
           THEN GroupNode(r, i, ParseAlts(r, i + 3))
           ELSE Failed
      [] r[i] = "[" -> ParseSet(r, i)
      [] r[i] = "\\" ->
           IF i + 1 > Len(r) \/ AlphaNumeric(r[i + 1]) THEN Failed
           ELSE Parsed([t |-> "literal", c |-> r[i + 1]], i + 2)
      [] r[i] = "." -> Parsed([t |-> "any"], i + 1)
      [] r[i] = "^" -> Parsed([t |-> "bol"], i + 1)
      [] r[i] = "$" -> Parsed([t |-> "eol"], i + 1)
      [] r[i] \in RepeatChars -> Failed
      [] OTHER -> Parsed([t |-> "literal", c |-> r[i]], i + 1)

\* item, and the items after it
BranchFrom(r, item) ==
    IF ~item.ok THEN Failed ELSE Cons(item.v, ParseBranch(r, item.next))

\* a sequence of repeated atoms
ParseBranch(r, i) ==
    IF i > Len(r) \/ r[i] \in {"|", ")"} THEN Parsed(<<>>, i)
    ELSE BranchFrom(r, Repeated(r, ParseAtom(r, i)))

Compiled(pattern, a) ==
    IF a.ok /\ a.next = Len(pattern) + 1
    THEN [ok |-> TRUE, alts |-> a.v]
    ELSE [ok |-> FALSE, alts |-> <<>>]

\* re.compile(pattern): [ok |-> FALSE] when it raises re.error
re_compile(pattern) == Compiled(pattern, ParseAlts(pattern, 1))

\* ------------------------------------------------------------- fullmatch

InSet(node, c) ==
    (\E k \in 1..Len(node.items) :
        Ord(node.items[k][1]) <= Ord(c) /\ Ord(c) <= Ord(node.items[k][2]))
    # node.negate

RECURSIVE Ends(_, _, _)
RECURSIVE BranchEnds(_, _, _, _)
RECURSIVE AltsEnds(_, _, _)
RECURSIVE StarEnds(_, _, _, _)

\* the positions a match of `node` that starts at position i of s can end at
\* (position i is before s[i]; Len(s) + 1 is the end of s)
Ends(node, s, i) ==
    CASE node.t = "literal" ->
           IF i <= Len(s) /\ s[i] = node.c THEN {i + 1} ELSE {}
      [] node.t = "any" ->
           IF i <= Len(s) /\ s[i] # "\n" THEN {i + 1} ELSE {}
      [] node.t = "set" ->
           IF i <= Len(s) /\ InSet(node, s[i]) THEN {i + 1} ELSE {}
      [] node.t = "bol" -> IF i = 1 THEN {i} ELSE {}
      [] node.t = "eol" ->
           IF i = Len(s) + 1 \/ (i = Len(s) /\ s[i] = "\n") THEN {i} ELSE {}
      [] node.t = "group" -> AltsEnds(node.alts, s, i)
      [] node.t = "assert_not" ->
           IF AltsEnds(node.alts, s, i) = {} THEN {i} ELSE {}
      [] node.t = "opt" -> {i} \cup Ends(node.of, s, i)
      [] node.t = "star" -> StarEnds(node.of, s, {i}, {i})

\* the ends of a match of items[k..] started at any position of `from`
BranchEnds(items, k, s, from) ==
    IF k > Len(items) \/ from = {} THEN from
    ELSE BranchEnds(items, k + 1, s,
                    UNION {Ends(items[k], s, i) : i \in from})

AltsEnds(alts, s, i) ==
    UNION {BranchEnds(alts[a], 1, s, {i}) : a \in 1..Len(alts)}

\* zero or more matches of `node`: `found` so far, `frontier` still to extend
StarEnds(node, s, found, frontier) ==
    LET more == UNION {Ends(node, s, i) : i \in frontier} \ found
    IN  IF more = {} THEN found
        ELSE StarEnds(node, s, found \cup more, more)

\* Pattern.fullmatch(path) is not None
fullmatch(compiled, path) == Len(path) + 1 \in AltsEnds(compiled.alts, path, 1)

\* ----------------------------------------------- GitignoreMatcher.__init__

\* the locals of __init__ before its loop over the rules
NoRules == [pattern |-> <<>>, dir_only_pattern |-> <<>>,
            dir_only_rules |-> FALSE]

NegativeLookahead(regex) == <<"(", "?", "!">> \o regex \o <<"$", ")">>

NonCapturing(regex) == <<"(", "?", ":">> \o regex \o <<")">>

\* one iteration of the loop of __init__ (lines 99-112).  In the negation
\* branch the directory-form pattern is built from `pattern`, which line 103
\* has just reassigned.
Combine(acc, rule) ==
    LET seen == acc.dir_only_rules \/ rule.directory_only
    IN  IF rule.negation
        THEN IF acc.pattern # <<>>
             THEN LET pattern == NegativeLookahead(rule.regex)
                                 \o NonCapturing(acc.pattern)
                  IN  [pattern |-> pattern,
                       dir_only_pattern |->
                           NegativeLookahead(rule.dir_only_regex)
                           \o NonCapturing(pattern),
                       dir_only_rules |-> seen]
             ELSE [acc EXCEPT !.dir_only_rules = seen]
        ELSE IF acc.pattern # <<>>
        THEN [pattern |-> acc.pattern \o <<"|">> \o rule.regex,
              dir_only_pattern |->
                  acc.dir_only_pattern \o <<"|">> \o rule.dir_only_regex,
              dir_only_rules |-> seen]
        ELSE [pattern |-> rule.regex,
              dir_only_pattern |-> rule.dir_only_regex,
              dir_only_rules |-> seen]

MatcherOf(regex, dir_only_regex, honors) ==
    [regex |-> regex, dir_only_regex |-> dir_only_regex,
     honor_directory_only |-> honors,
     raised |-> ~regex.ok \/ ~dir_only_regex.ok]

\* lines 114-117: the matcher's fields; `raised` when re.compile raises.
\* dir_only_regex is compiled, and so can raise, only when directory-only
\* rules are honoured.
Matcher(acc, honor) ==
    MatcherOf(re_compile(acc.pattern),
              IF honor /\ acc.dir_only_rules
              THEN re_compile(acc.dir_only_pattern)
              ELSE [ok |-> TRUE, alts |-> <<>>],
              honor /\ acc.dir_only_rules)

\* _call: whether `path` is ignored, os.path.isdir(path) answering `isdir`
call(m, path, isdir) ==
    IF m.honor_directory_only /\ isdir
    THEN fullmatch(m.dir_only_regex, path)
    ELSE fullmatch(m.regex, path)

RECURSIVE rule_generator(_, _, _)
\* _rule_generator: the rules of the lines from line_number on
rule_generator(lines, base, n) ==
    IF n > Len(lines) THEN <<>>
    ELSE rule_from_pattern(lines[n], base) \o rule_generator(lines, base, n + 1)

RECURSIVE CombineAll(_, _, _)
\* the loop of __init__ over rs[k..]
CombineAll(acc, rs, k) ==
    IF k > Len(rs) THEN acc ELSE CombineAll(Combine(acc, rs[k]), rs, k + 1)

\* parse_gitignore_lines: the matcher's fields
parse_gitignore_lines(lines, base, honor) ==
    Matcher(CombineAll(NoRules, rule_generator(lines, base, 1), 1), honor)

\* ---------------------------------------------------------------- state

VARIABLES
    gitignore_lines,        \* parse_gitignore_lines: the lines given
    base_dir,               \* ... the base directory given
    honor_directory_only,   \* ... the flag given
    pc,                     \* "parsing", "ready" (a matcher was returned),
                            \* "called" (and has been called), "raised"
                            \* (construction raised)
    line_number,            \* _rule_generator: the line it reads next
    rules,                  \* the rules it has yielded
    combined,               \* __init__: pattern, dir_only_pattern,
                            \* dir_only_rules
    matcher,                \* the GitignoreMatcher's fields
    path,                   \* the last call's path,
    isdir,                  \* what os.path.isdir answered for it,
    result,                 \* and what the call returned
    paths,                  \* __call__, match_iter: the paths given,
    dirs,                   \* those of them os.path.isdir answers true for,
    position,               \* match_iter: the path its loop reads next
    ignored                 \* the list returned, or the paths yielded so far

vars == <<gitignore_lines, base_dir, honor_directory_only, pc, line_number,
          rules, combined, matcher, path, isdir, result, paths, dirs,
          position, ignored>>

batch == <<paths, dirs, position, ignored>>

inputs == <<gitignore_lines, base_dir, honor_directory_only>>

\* no matcher yet
NoMatcher == [regex |-> [ok |-> FALSE, alts |-> <<>>],
              dir_only_regex |-> [ok |-> FALSE, alts |-> <<>>],
              honor_directory_only |-> FALSE, raised |-> FALSE]

\* parse_gitignore_lines(lines, base, '', honor) is called
Start(lines, base, honor) ==
    /\ gitignore_lines = lines
    /\ base_dir = base
    /\ honor_directory_only = honor
    /\ pc = "parsing"
    /\ line_number = 1
    /\ rules = <<>>
    /\ combined = NoRules
    /\ matcher = NoMatcher
    /\ path = <<>>
    /\ isdir = FALSE
    /\ result = FALSE
    /\ paths = <<>>
    /\ dirs = {}
    /\ position = 1
    /\ ignored = <<>>

\* `ignore_rule`, if it is one, is yielded to the loop of __init__
Yield(ignore_rule) ==
    /\ rules' = rules \o ignore_rule
    /\ combined' = IF ignore_rule = <<>> THEN combined
                   ELSE Combine(combined, ignore_rule[1])

\* _rule_generator reads one line; if it compiles to a rule, the rule is
\* yielded to the loop of __init__, which combines it
NextRule ==
    /\ pc = "parsing"
    /\ line_number <= Len(gitignore_lines)
    /\ Yield(rule_from_pattern(gitignore_lines[line_number], base_dir))
    /\ line_number' = line_number + 1
    /\ UNCHANGED <<inputs, pc, matcher, path, isdir, result, batch>>

\* __init__ ends with matcher m, or raises
Return(m) ==
    /\ matcher' = IF m.raised THEN matcher ELSE m
    /\ pc' = IF m.raised THEN "raised" ELSE "ready"

\* the generator is exhausted: the combined patterns are compiled and the
\* matcher is returned, unless re.compile raises
CompileMatcher ==
    /\ pc = "parsing"
    /\ line_number > Len(gitignore_lines)
    /\ Return(Matcher(combined, honor_directory_only))
    /\ UNCHANGED <<inputs, line_number, rules, combined, path, isdir, result,
                   batch>>

\* matcher(p) for a path p of `asked`, os.path.isdir(p) answering d.  A call
\* leaves the matcher as it is, so a behaviour follows one call: a second
\* call would start from the same matcher.
Call(asked) ==
    /\ pc = "ready"
    /\ \E p \in asked, d \in BOOLEAN :
          /\ path' = p
          /\ isdir' = d
          /\ result' = call(matcher, p, d)
    /\ pc' = "called"
    /\ UNCHANGED <<inputs, line_number, rules, combined, matcher, batch>>

RECURSIVE ListOfReversed(_, _, _)
\* the ignored paths of ps, the later ones first
ListOfReversed(m, ps, ds) ==
    IF ps = <<>> THEN <<>>
    ELSE ListOfReversed(m, Tail(ps), ds)
         \o (IF call(m, Head(ps), Head(ps) \in ds) THEN <<Head(ps)>>
             ELSE <<>>)

RECURSIVE ListOf(_, _, _)
\* line 172: [path for path in path_or_paths if self._call(path)], ds the
\* paths os.path.isdir answers true for
ListOf(m, ps, ds) ==
    IF ps = <<>> THEN <<>>
    ELSE (IF call(m, Head(ps), Head(ps) \in ds) THEN <<Head(ps)>> ELSE <<>>)
         \o ListOf(m, Tail(ps), ds)

\* matcher(ps) for a sequence ps of `sequences`: the list of the ignored
\* paths is returned
CallList(sequences, directories) ==
    /\ pc = "ready"
    /\ \E ps \in sequences, ds \in SUBSET directories :
          /\ paths' = ps
          /\ dirs' = ds
          /\ ignored' = ListOf(matcher, ps, ds)
    /\ pc' = "listed"
    /\ UNCHANGED <<inputs, line_number, rules, combined, matcher, path, isdir,
                   result, position>>

\* matcher.match_iter(ps): a generator is returned, its body not yet run
MatchIter(sequences, directories) ==
    /\ pc = "ready"
    /\ \E ps \in sequences, ds \in SUBSET directories :
          /\ paths' = ps
          /\ dirs' = ds
    /\ position' = 1
    /\ ignored' = <<>>
    /\ pc' = "iterating"
    /\ UNCHANGED <<inputs, line_number, rules, combined, matcher, path, isdir,
                   result>>

RECURSIVE NextIgnored(_, _, _, _)
\* lines 187-189 from the k-th path on: the index of the path the loop
\* yields next, or Len(ps) + 1 when it ends without one
NextIgnored(m, ps, ds, k) ==
    IF k > Len(ps) THEN k
    ELSE IF call(m, ps[k], ps[k] \in ds) THEN k
    ELSE NextIgnored(m, ps, ds, k + 1)

\* the generator is resumed and has read the paths before the k-th: it
\* yields that one, or is exhausted
Resume(k) ==
    /\ position' = IF k > Len(paths) THEN k ELSE k + 1
    /\ ignored' = IF k > Len(paths) THEN ignored ELSE Append(ignored, paths[k])
    /\ pc' = IF k > Len(paths) THEN "iterated" ELSE "iterating"

\* next() on the generator of match_iter
IterNext ==
    /\ pc = "iterating"
    /\ Resume(NextIgnored(matcher, paths, dirs, position))
    /\ UNCHANGED <<inputs, line_number, rules, combined, matcher, path, isdir,
                   result, paths, dirs>>

\* --------------------------------------------------------------- inputs

\* the lines of a rule set are at most this many
MaxLines == 2

\* a path below the base directory has at most this many characters after it
MaxPathLen == 3

\* a pattern drawn character by character has at most this many characters
MaxPatternLen == 4

\* a path drawn segment by segment has at most this many segments
MaxDepth == 4

RECURSIVE Strings(_, _)
\* the strings of at most n characters of `chars`
Strings(chars, n) ==
    IF n = 0 THEN {<<>>}
    ELSE LET shorter == Strings(chars, n - 1)
         IN  shorter \cup {Append(s, c) : s \in {x \in shorter : Len(x) = n - 1},
                                          c \in chars}

RECURSIVE Lists(_, _)
\* the lists of at most n members of `pool`
Lists(pool, n) ==
    IF n = 0 THEN {<<>>}
    ELSE LET shorter == Lists(pool, n - 1)
         IN  shorter \cup {Append(l, x) : l \in {y \in shorter : Len(y) = n - 1},
                                          x \in pool}

\* base_path without the trailing separator _build_regex drops
Below(base) ==
    IF base # <<>> /\ Last(base) = "/"
    THEN SubSeq(base, 1, Len(base) - 1) ELSE base

\* the paths a matcher is asked about: the empty path, the base directory,
\* a path outside it, and every path of at most MaxPathLen characters below it
PathsBelow(base) ==
    {<<>>, Below(base), <<"/", "b", "/", "a">>}
    \cup {Below(base) \o <<"/">> \o s : s \in Strings({"a", "b", "/"}, MaxPathLen)}

\* the lines the rule sets of Spec are made of: a wildcard, negations, a
\* directory-only pattern and lines with a malformed token
PatternPool ==
    { <<"*", "a">>, <<"!", "b", "a">>, <<"b", "/">>, <<"!", "a">>,
      <<"*", "*", "*">>, <<"[", "]">> }

\* an absolute base directory and a relative one
BaseDirs == { <<"/", "r">>, <<"r">> }

Init ==
    \E lines \in Lists(PatternPool, MaxLines), base \in BaseDirs,
       honor \in BOOLEAN : Start(lines, base, honor)

Next ==
    \/ NextRule
    \/ CompileMatcher
    \/ Call(PathsBelow(base_dir))

Spec == Init /\ [][Next]_vars

\* ------------------------------------------- rule sets of one named line

\* the names path segments are drawn from
SegmentPool ==
    { <<"a">>, <<"b">>, <<"c">>, <<"d">>, <<"a", "b">>, <<"b", "X", "c">>,
      <<"a", "X", "b">> }

RECURSIVE Joined(_)
\* the segments with a separator before each
Joined(segments) ==
    IF segments = <<>> THEN <<>>
    ELSE <<"/">> \o Head(segments) \o Joined(Tail(segments))

\* the paths of at most MaxDepth segments below the base directory, each also
\* with a trailing separator
SegmentPaths(base) ==
    {Below(base) \o Joined(l) \o e :
        l \in Lists(SegmentPool, MaxDepth) \ {<<>>}, e \in {<<>>, <<"/">>}}

\* the lines of SpecNamed: directory-only names, a/**/b, a/b**c/d,
\* a[X-Z/]b and [a]/[b]
NamedPatterns ==
    { <<"a", "/">>, <<"a", "b", "/">>,
      <<"a", "/", "*", "*", "/", "b">>,
      <<"a", "/", "b", "*", "*", "c", "/", "d">>,
      <<"a", "[", "X", "-", "Z", "/", "]", "b">>,
      <<"[", "a", "]", "/", "[", "b", "]">> }

InitNamed ==
    \E line \in NamedPatterns, honor \in BOOLEAN :
        Start(<<line>>, <<"/", "r">>, honor)

NextNamed ==
    \/ NextRule
    \/ CompileMatcher
    \/ Call(SegmentPaths(base_dir))

SpecNamed == InitNamed /\ [][NextNamed]_vars

\* ---------------------------------------------- rule sets of any one line

\* the characters the lines of SpecPatterns are made of
PatternChars == {"a", "/", "*", " ", "\t", "\\", "!"}

\* the paths the matchers of SpecPatterns are asked about: names in the base
\* directory and in a subdirectory of it
PatternPaths(base) ==
    {Below(base) \o Joined(l) :
        l \in Lists({<<"a">>, <<"a", "a">>, <<"b">>}, 2) \ {<<>>}}

InitPatterns ==
    \E line \in Strings(PatternChars, MaxPatternLen) :
        Start(<<line>>, <<"/", "r", "/">>, FALSE)

NextPatterns ==
    \/ NextRule
    \/ CompileMatcher
    \/ Call(PatternPaths(base_dir))

SpecPatterns == InitPatterns /\ [][NextPatterns]_vars

\* ---------------------------------------------------- sequences of paths

\* a sequence of paths given to a matcher has at most this many paths
MaxBatch == 3

\* the paths the sequences are made of
BatchPaths ==
    { <<"/", "r", "/", "a">>, <<"/", "r", "/", "b", "a">>,
      <<"/", "r", "/", "b">>, <<"/", "r", "/", "a", "a">> }

\* the paths that may be directories
BatchDirs == { <<"/", "r", "/", "a">>, <<"/", "r", "/", "b">> }

\* the rule sets of SpecBatch
BatchLines ==
    { <<>>, << <<"b", "/">> >>, << <<"*", "a">>, <<"!", "b", "a">> >> }

InitBatch ==
    \E lines \in BatchLines, honor \in BOOLEAN :
        Start(lines, <<"/", "r">>, honor)

NextBatch ==
    \/ NextRule
    \/ CompileMatcher
    \/ CallList(Lists(BatchPaths, MaxBatch), BatchDirs)
    \/ MatchIter(Lists(BatchPaths, MaxBatch), BatchDirs)
    \/ IterNext

SpecBatch == InitBatch /\ [][NextBatch]_vars

\* --------------------------------------------------------------- claims

Max(S) == CHOOSE m \in S : \A k \in S : k <= m

\* the rules of rs whose file-form expression fully matches p
FileMatches(rs, p) ==
    {k \in 1..Len(rs) : fullmatch(re_compile(rs[k].regex), p)}

\* the rules of rs whose directory-form expression fully matches p
DirMatches(rs, p) ==
    {k \in 1..Len(rs) : fullmatch(re_compile(rs[k].dir_only_regex), p)}

\* some rule of `matches` there is, and the last of them is not negated
LastWins(rs, matches) == matches # {} /\ ~rs[Max(matches)].negation

\* the path is judged by the file-form expression
FileForm == ~(matcher.honor_directory_only /\ isdir)

Under(base, suffix) == Below(base) \o <<"/">> \o suffix

\* C1: a path judged in file form is ignored exactly when some rule's
\* file-form expression fully matches it and the last such rule, in the order
\* of the lines, is not negated; for the lines *a, !ba (a wildcard and a
\* negated name it covers) the path ba is not ignored while aa and a are.
C1_LastMatchingRuleWins ==
    (pc = "called" /\ FileForm) =>
        /\ result = LastWins(rules, FileMatches(rules, path))
        /\ gitignore_lines = << <<"*", "a">>, <<"!", "b", "a">> >> =>
              /\ path = Under(base_dir, <<"b", "a">>) => ~result
              /\ path \in {Under(base_dir, <<"a", "a">>),
                           Under(base_dir, <<"a">>)} => result

\* C3: a directory, when directory-only rules are honoured, is ignored
\* exactly when some rule's directory-form expression fully matches it and
\* the last such rule is not negated: the directory-form expressions are
\* combined on their own.
C3_DirectoryFormCombinedAlone ==
    (pc = "called" /\ ~FileForm /\ path # <<>>) =>
        result = LastWins(rules, DirMatches(rules, path))

\* a line has a malformed token: GITIGNORE_PATTERN matches it as error_stars
\* or error
Malformed(line) ==
    /\ line # <<>> /\ line[1] # "#"
    /\ \E k \in DOMAIN finditer(line, IF Negation(line) THEN 2 ELSE 1) :
          finditer(line, IF Negation(line) THEN 2 ELSE 1)[k].kind
              \in {"error", "error_stars"}

WellFormed(line) == ~Malformed(line)

WithoutMalformed(lines) == SelectSeq(lines, WellFormed)

IsAbsolute(base) == base # <<>> /\ base[1] = "/"

\* C10: with a base directory that is not absolute, construction fails: no
\* matcher is returned.
C10_RelativeBaseFails == ~IsAbsolute(base_dir) => pc \notin {"ready", "called"}

RECURSIVE Split(_, _)
\* s.split('/') with `segment` read so far
Split(s, segment) ==
    IF s = <<>> THEN <<segment>>
    ELSE IF Head(s) = "/" THEN <<segment>> \o Split(Tail(s), <<>>)
    ELSE Split(Tail(s), Append(segment, Head(s)))

\* the segments of a path below the base directory; the last is empty when
\* the path ends with a separator
Segments(p, base) == Split(From(p, Len(Below(base)) + 2), <<>>)

IsBelow(p, base) == StartsWith(p, Below(base) \o <<"/">>)

\* C2: with the one line N/ (N a literal name), a path below the base
\* directory is ignored exactly when one of its segments is N and either
\* something, if only a separator, follows that segment, or directory-only
\* rules are honoured and the path is a directory.  So B/N and B/x/N, not
\* known to be directories, are not ignored; B/N/, B/N/x and B/x/N/y are; and
\* the directory B/N is.
C2_DirectoryOnlyName ==
    \A N \in {<<"a">>, <<"a", "b">>} :
        (pc = "called" /\ gitignore_lines = <<N \o <<"/">> >>
            /\ IsBelow(path, base_dir)) =>
            result = \E k \in DOMAIN Segments(path, base_dir) :
                        /\ Segments(path, base_dir)[k] = N
                        /\ \/ k < Len(Segments(path, base_dir))
                           \/ ~FileForm

\* the name one level down, asked about as a file, is not ignored although
\* the segment is the rule's name
C2_Witness ==
    /\ pc = "called" /\ gitignore_lines = << <<"a", "/">> >>
    /\ path = Under(base_dir, <<"b", "/", "a">>)
    /\ matcher.honor_directory_only /\ ~isdir /\ ~result

\* C5: with the one line a/**/b, a path below the base directory is ignored
\* exactly when its first segment is a and a later segment is b: whole
\* segments, none or several, stand between them.  So B/a/b, B/a/x/b and
\* B/a/x/y/b are ignored and B/a/xb is not.
C5_DoubleWildcardSegments ==
    (pc = "called"
        /\ gitignore_lines = << <<"a", "/", "*", "*", "/", "b">> >>
        /\ IsBelow(path, base_dir)) =>
        result = /\ Segments(path, base_dir)[1] = <<"a">>
                 /\ \E k \in 2..Len(Segments(path, base_dir)) :
                       Segments(path, base_dir)[k] = <<"b">>

\* two whole segments stand between a and b
C5_Witness ==
    /\ pc = "called" /\ result
    /\ gitignore_lines = << <<"a", "/", "*", "*", "/", "b">> >>
    /\ path = Under(base_dir, <<"a", "/", "c", "/", "d", "/", "b">>)

\* C6: with the one line a/b**c/d the two asterisks match no separator:
\* a/bXc/d is ignored and a/b/c/d is not.
C6_DoubleAsteriskInName ==
    (pc = "called"
        /\ gitignore_lines
             = << <<"a", "/", "b", "*", "*", "c", "/", "d">> >>
        /\ IsBelow(path, base_dir)) =>
        /\ path = Under(base_dir, <<"a", "/", "b", "X", "c", "/", "d">>)
              => result
        /\ path = Under(base_dir, <<"a", "/", "b", "/", "c", "/", "d">>)
              => ~result

\* C7: with the one line a[X-Z/]b the bracket class matches no separator:
\* a/b is not ignored, nor anything below it.
C7_ClassNeverMatchesSeparator ==
    (pc = "called"
        /\ gitignore_lines
             = << <<"a", "[", "X", "-", "Z", "/", "]", "b">> >>
        /\ IsBelow(path, base_dir)
        /\ Len(Segments(path, base_dir)) >= 2
        /\ Segments(path, base_dir)[1] = <<"a">>
        /\ Segments(path, base_dir)[2] = <<"b">>
        /\ \A k \in DOMAIN Segments(path, base_dir) :
              Segments(path, base_dir)[k] # <<"a", "X", "b">>) => ~result

\* the tokens of a line after its negation mark
Tokens(line) == finditer(line, IF Negation(line) THEN 2 ELSE 1)

\* the tokens of a line without the run of spaces it may end with
SignificantTokens(line) ==
    IF Tokens(line) # <<>> /\ Last(Tokens(line)).kind = "spaces"
    THEN SubSeq(Tokens(line), 1, Len(Tokens(line)) - 1)
    ELSE Tokens(line)

\* a separator token stands before the last significant token
SeparatorBeforeFinalToken(line) ==
    \E k \in 1..(Len(SignificantTokens(line)) - 1) :
        SignificantTokens(line)[k].kind = "separator"

\* a pattern of names and wildcards: no separator, no negation, no comment
Simple(P) ==
    /\ P # <<>> /\ P[1] \notin {"!", "#"}
    /\ \A k \in DOMAIN P : P[k] # "/"
    /\ \A k \in DOMAIN Tokens(P) :
          Tokens(P)[k].kind
              \in {"name_piece", "star", "question_mark", "escaped_char"}

\* the rule set of the one line P ignores the name s in the base directory
IgnoresName(P, s) ==
    call(parse_gitignore_lines(<<P>>, base_dir, honor_directory_only),
         Under(base_dir, s), FALSE)

OneSegment(p) ==
    IsBelow(p, base_dir) /\ Len(Segments(p, base_dir)) = 1
        /\ Segments(p, base_dir)[1] # <<>>

TwoSegments(p) ==
    IsBelow(p, base_dir) /\ Len(Segments(p, base_dir)) = 2
        /\ Segments(p, base_dir)[1] # <<>> /\ Segments(p, base_dir)[2] # <<>>

\* C4: the rule of a line is anchored exactly when a separator token stands
\* before the line's last token, a final run of spaces not counted.  A
\* pattern /P, P of names and wildcards, ignores a name in the base directory
\* exactly when P alone does, and ignores no name in a subdirectory P does
\* not match; P alone ignores in a subdirectory every name it ignores in the
\* base directory.
C4_Anchoring ==
    /\ (line_number = 2 /\ rules # <<>>) =>
          rules[1].anchored = SeparatorBeforeFinalToken(gitignore_lines[1])
    /\ (pc = "called" /\ gitignore_lines[1] # <<>>
            /\ Head(gitignore_lines[1]) = "/"
            /\ Simple(Tail(gitignore_lines[1]))) =>
          /\ OneSegment(path) =>
                result = IgnoresName(Tail(gitignore_lines[1]),
                                     Segments(path, base_dir)[1])
          /\ (TwoSegments(path)
                /\ ~IgnoresName(Tail(gitignore_lines[1]),
                                Segments(path, base_dir)[1])) => ~result
    /\ (pc = "called" /\ Simple(gitignore_lines[1]) /\ TwoSegments(path)) =>
          result = \/ call(matcher,
                           Under(base_dir, Segments(path, base_dir)[1]),
                           FALSE)
                   \/ call(matcher,
                           Under(base_dir, Segments(path, base_dir)[2]),
                           FALSE)

\* the anchored pattern /*a does not ignore the name a in the subdirectory b
C4_Witness ==
    /\ pc = "called" /\ gitignore_lines = << <<"/", "*", "a">> >>
    /\ rules[1].anchored
    /\ path = Under(base_dir, <<"b", "/", "a">>) /\ ~result
    /\ IgnoresName(<<"*", "a">>, <<"a">>)

\* what a line compiled to, its text aside: nothing, or the rule's fields
Outcome(rs) ==
    IF rs = <<>> THEN <<>>
    ELSE <<rs[1].regex, rs[1].dir_only_regex, rs[1].negation,
           rs[1].anchored, rs[1].directory_only>>

RECURSIVE TrailingBackslashes(_)
TrailingBackslashes(P) ==
    IF P = <<>> \/ Last(P) # "\\" THEN 0
    ELSE 1 + TrailingBackslashes(SubSeq(P, 1, Len(P) - 1))

\* P ends with a backslash that would escape what is appended
EscapesNext(P) == TrailingBackslashes(P) % 2 = 1

\* an appended run of whitespace has at most this many characters
MaxPad == 2

\* the runs of whitespace appended to a line
WhitespacePads == Strings({" ", "\t"}, MaxPad) \ {<<>>}

\* those that begin with a space
SpacePads == {pad \in WhitespacePads : Head(pad) = " "}

EndsWith(s, suffix) ==
    /\ Len(s) >= Len(suffix)
    /\ SubSeq(s, Len(s) - Len(suffix) + 1, Len(s)) = suffix

Compiled1 == line_number = 2 /\ pc # "called"

ThreeStars(line) ==
    /\ StartsWith(line, <<"*", "*", "*">>)
    /\ Len(line) = 3 \/ line[4] # "*"

\* C11: a run of three asterisks is read as one asterisk: the rule set of
\* the one line ***P decides every path as the rule set of the line *P does.
C11_StarsAsOneStar ==
    (pc = "called" /\ ThreeStars(gitignore_lines[1])) =>
        result = call(parse_gitignore_lines(
                          << <<"*">> \o From(gitignore_lines[1], 4) >>,
                          base_dir, honor_directory_only),
                      path, isdir)

\* C12: a rule set that compiled to no rule ignores no path.
C12_NoRulesIgnoreNothing ==
    (pc = "called" /\ rules = <<>>) => ~result

\* the indexes of the paths given that the matcher ignores when asked about
\* each alone
IgnoredIndexes ==
    {k \in DOMAIN paths : call(matcher, paths[k], paths[k] \in dirs)}

\* s is the paths given at the indexes of K, in their order
PathsAt(s, K) ==
    /\ Len(s) = Cardinality(K)
    /\ \A j \in DOMAIN s :
          \E k \in K : /\ Cardinality({i \in K : i <= k}) = j
                       /\ s[j] = paths[k]

\* the matcher is the one the lines were compiled to
RuleSetKept ==
    /\ rules = rule_generator(gitignore_lines, base_dir, 1)
    /\ matcher = Matcher(CombineAll(NoRules, rules, 1), honor_directory_only)

\* C13: the list a matcher returns for a sequence of paths is the paths it
\* ignores one by one, in the order given and as often as given; match_iter
\* has yielded, at every moment, those of them among the paths it has read,
\* the last path read being the last one yielded, and all of them when it is
\* exhausted; the rule set stays what the lines compiled to.
C13_BatchAndLazyFiltering ==
    /\ pc = "listed" => PathsAt(ignored, IgnoredIndexes) /\ RuleSetKept
    /\ pc = "iterating" =>
          /\ PathsAt(ignored, {k \in IgnoredIndexes : k < position})
          /\ position > 1 => position - 1 \in IgnoredIndexes
          /\ position <= Len(paths) + 1
          /\ RuleSetKept
    /\ pc = "iterated" =>
          /\ PathsAt(ignored, IgnoredIndexes)
          /\ position = Len(paths) + 1
          /\ RuleSetKept

\* a path given twice is yielded twice, a path between not being ignored
C13_Witness ==
    /\ pc = "iterated"
    /\ paths = << <<"/", "r", "/", "a">>, <<"/", "r", "/", "b", "a">>,
                  <<"/", "r", "/", "a">> >>
    /\ ignored = << <<"/", "r", "/", "a">>, <<"/", "r", "/", "a">> >>
    /\ ListOf(matcher, paths, dirs) = ignored

\* the line, a final run of unescaped spaces aside, ends with a separator
\* that no backslash escapes
EndsWithUnescapedSeparator(line) ==
    /\ SignificantTokens(line) # <<>>
    /\ Last(SignificantTokens(line)).kind = "separator"

\* the line ends with a backslash-escaped separator
EndsWithEscapedSeparator(line) ==
    /\ SignificantTokens(line) # <<>>
    /\ Last(SignificantTokens(line)).kind = "escaped_char"
    /\ Last(SignificantTokens(line)).text = <<"\\", "/">>

\* C14: a rule is directory-only exactly when its line, a final run of
\* unescaped spaces aside, ends with an unescaped separator: a line that ends
\* with a backslash-escaped separator is not directory-only, and a line that
\* ends with **/ is.
C14_DirectoryOnlyFlag ==
    (line_number = 2 /\ rules # <<>>) =>
        /\ rules[1].directory_only
              = EndsWithUnescapedSeparator(gitignore_lines[1])
        /\ EndsWithEscapedSeparator(gitignore_lines[1])
              => ~rules[1].directory_only
        /\ EndsWith(gitignore_lines[1], <<"*", "*", "/">>)
              => rules[1].directory_only

\* the kinds of the tokens of a line, in order
Kinds(line) == [k \in DOMAIN Tokens(line) |-> Tokens(line)[k].kind]

\* C15: a bracket token ends at the first unescaped ] after its [ : the line
\* [a]/[b] is a bracket class, a separator and a bracket class, so its rule
\* is anchored and does not ignore a/b in a subdirectory.
C15_BracketTokenEndsAtFirstBracket ==
    gitignore_lines = << <<"[", "a", "]", "/", "[", "b", "]">> >> =>
        /\ Kinds(gitignore_lines[1])
              = <<"bracket_expression", "separator", "bracket_expression">>
        /\ line_number = 2 => rules # <<>> /\ rules[1].anchored
        /\ (pc = "called"
              /\ path = Under(base_dir, <<"c", "/", "a", "/", "b">>))
              => ~result

====
